---- MODULE Spec2Model ----
(***************************************************************************)
(* Model of the crypto price update scripts:                               *)
(*   update_networth_multi.py  price-map loaders and the row valuation loop *)
(*   aps_update.py             the single-token predecessor of that loop    *)
(*   mag_custom_price.py       the MAG/USD chained price file writer        *)
(*                                                                         *)
(* Text the program parses (amounts, dates, timestamps) is a sequence of   *)
(* one-character strings over the alphabet                                 *)
(*     0-9  -  +  .  :  space  T  Z  x                                     *)
(* where x stands for any other character.  Text the program only compares *)
(* (currency codes, other columns) is a sequence of one opaque chunk.       *)
(* A Python float is                                                       *)
(* a signed decimal  (-1)^neg * m * 10^(-e)  kept exactly; float products  *)
(* are exact decimal products and "%.8f" rounds half-even on the decimal   *)
(* value.                                                                  *)
(***************************************************************************)
EXTENDS Integers, Sequences, FiniteSets, TLC

(***************************************************************************)
(* Text helpers                                                            *)
(***************************************************************************)
DigitChars == <<"0", "1", "2", "3", "4", "5", "6", "7", "8", "9">>

IsDigit(c) == c \in {"0", "1", "2", "3", "4", "5", "6", "7", "8", "9"}

DigitVal(c) ==
    CASE c = "0" -> 0 [] c = "1" -> 1 [] c = "2" -> 2 [] c = "3" -> 3
      [] c = "4" -> 4 [] c = "5" -> 5 [] c = "6" -> 6 [] c = "7" -> 7
      [] c = "8" -> 8 [] c = "9" -> 9

AllDigits(s) == \A i \in 1..Len(s) : IsDigit(s[i])

IsSpace(c) == c \in {" ", "\t", "\n", "\r"}

RECURSIVE LStrip(_)
LStrip(s) == IF s # <<>> /\ IsSpace(Head(s)) THEN LStrip(Tail(s)) ELSE s

RECURSIVE RStrip(_)
RStrip(s) ==
    IF s # <<>> /\ IsSpace(s[Len(s)])
    THEN RStrip(SubSeq(s, 1, Len(s) - 1))
    ELSE s

\* str.strip()
Strip(s) == RStrip(LStrip(s))

\* int() of a run of decimal digits
RECURSIVE DigitsToNat(_)
DigitsToNat(ds) ==
    IF ds = <<>> THEN 0
    ELSE DigitsToNat(SubSeq(ds, 1, Len(ds) - 1)) * 10 + DigitVal(ds[Len(ds)])

\* decimal digits of a natural number, no leading zeros ("0" for 0)
RECURSIVE NatToDigits(_)
NatToDigits(n) ==
    IF n < 10 THEN <<DigitChars[n + 1]>>
    ELSE Append(NatToDigits(n \div 10), DigitChars[(n % 10) + 1])

RECURSIVE Zeros(_)
Zeros(k) == IF k <= 0 THEN <<>> ELSE <<"0">> \o Zeros(k - 1)

\* zero-padded rendering, as "%04d" / "%02d"
PadNat(n, width) ==
    LET ds == NatToDigits(n) IN Zeros(width - Len(ds)) \o ds

RECURSIVE Pow10(_)
Pow10(k) == IF k <= 0 THEN 1 ELSE 10 * Pow10(k - 1)

RECURSIVE DropTrailingZeros(_)
DropTrailingZeros(ds) ==
    IF ds # <<>> /\ ds[Len(ds)] = "0"
    THEN DropTrailingZeros(SubSeq(ds, 1, Len(ds) - 1))
    ELSE ds

(***************************************************************************)
(* Python floats as exact signed decimals                                  *)
(***************************************************************************)
\* the value (-1)^neg * m * 10^(-e); ok = FALSE stands for a raised ValueError
MkFloat(neg, m, e) == [ok |-> TRUE, neg |-> neg, m |-> m, e |-> e]

FloatError == [ok |-> FALSE, neg |-> FALSE, m |-> 0, e |-> 0]

FloatZero == MkFloat(FALSE, 0, 0)

\* x == 0.0 (true of -0.0 as well)
IsZero(f) == f.m = 0

\* float(s) for a str s: optional surrounding whitespace, optional sign, then
\* digits with an optional point (at least one digit on one side of it)
PyFloat(s) ==
    LET t      == Strip(s)
        signed == t # <<>> /\ Head(t) \in {"-", "+"}
        neg    == t # <<>> /\ Head(t) = "-"
        body   == IF signed THEN Tail(t) ELSE t
        dots   == {i \in 1..Len(body) : body[i] = "."}
        p      == IF dots = {} THEN Len(body) + 1 ELSE CHOOSE i \in dots : TRUE
        ip     == SubSeq(body, 1, p - 1)
        fp     == SubSeq(body, p + 1, Len(body))
        frac   == DropTrailingZeros(fp)
    IN  IF /\ Cardinality(dots) <= 1
           /\ AllDigits(ip) /\ AllDigits(fp)
           /\ Len(ip) + Len(fp) > 0
        THEN MkFloat(neg, DigitsToNat(ip \o frac), Len(frac))
        ELSE FloatError

\* a * b
FloatMul(a, b) ==
    LET m  == a.m * b.m
        ds == NatToDigits(m)
        e  == a.e + b.e
        \* keep the representation canonical: no trailing zero under the point
        z  == Len(ds) - Len(DropTrailingZeros(ds))
        k  == IF m = 0 THEN e ELSE IF z < e THEN z ELSE e
    IN  MkFloat(a.neg # b.neg, m \div Pow10(k), e - k)

\* (a + b) / 2.0
FloatAvg(a, b) ==
    LET e   == IF a.e > b.e THEN a.e ELSE b.e
        sa  == (IF a.neg THEN -1 ELSE 1) * a.m * Pow10(e - a.e)
        sb  == (IF b.neg THEN -1 ELSE 1) * b.m * Pow10(e - b.e)
        sum == sa + sb
        s   == IF sum < 0 THEN -sum ELSE sum
        m   == IF s % 2 = 0 THEN s \div 2 ELSE s * 5
        e2  == IF s % 2 = 0 THEN e ELSE e + 1
        ds  == NatToDigits(m)
        z   == Len(ds) - Len(DropTrailingZeros(ds))
        k   == IF m = 0 THEN e2 ELSE IF z < e2 THEN z ELSE e2
    IN  MkFloat(sum < 0, m \div Pow10(k), e2 - k)

\* f"{x:.Nf}": fixed notation with N decimals
FormatFixed(f, places) ==
    LET cut  == f.e - places
        q0   == IF cut > 0 THEN f.m \div Pow10(cut) ELSE f.m
        r    == IF cut > 0 THEN f.m % Pow10(cut) ELSE 0
        half == IF cut > 0 THEN 5 * Pow10(cut - 1) ELSE 1
        up   == cut > 0 /\ (r > half \/ (r = half /\ q0 % 2 = 1))
        q    == IF up THEN q0 + 1 ELSE q0
        e    == IF cut > 0 THEN places ELSE f.e
        ip   == q \div Pow10(e)
        fr   == q % Pow10(e)
        frds == IF e = 0 THEN <<>> ELSE PadNat(fr, e)
    IN  (IF f.neg THEN <<"-">> ELSE <<>>)
        \o NatToDigits(ip)
        \o (IF places > 0 THEN <<".">> ELSE <<>>) \o frds \o Zeros(places - e)

(***************************************************************************)
(* Calendar dates (datetime.date)                                          *)
(***************************************************************************)
MkDate(y, mo, d) == [ok |-> TRUE, y |-> y, mo |-> mo, d |-> d]

\* stands for "no datetime": None returned, or ValueError raised
DateError == [ok |-> FALSE, y |-> 0, mo |-> 0, d |-> 0]

IsLeap(y) == (y % 4 = 0 /\ y % 100 # 0) \/ y % 400 = 0

DaysInMonth(y, mo) ==
    IF mo = 2 THEN (IF IsLeap(y) THEN 29 ELSE 28)
    ELSE IF mo \in {4, 6, 9, 11} THEN 30 ELSE 31

\* the range checks of the datetime constructor
ValidDateTime(y, mo, d, h, mi, sec) ==
    /\ y >= 1 /\ y <= 9999
    /\ mo >= 1 /\ mo <= 12
    /\ d >= 1 /\ d <= DaysInMonth(y, mo)
    /\ h >= 0 /\ h <= 23
    /\ mi >= 0 /\ mi <= 59
    /\ sec >= 0 /\ sec <= 59

\* date.isoformat(): "YYYY-MM-DD"
IsoFormat(dt) ==
    PadNat(dt.y, 4) \o <<"-">> \o PadNat(dt.mo, 2) \o <<"-">> \o PadNat(dt.d, 2)

\* a run of 1..2 digits (the directives %m %d %H %M %S of strptime)
IsNumField(s, from, len) ==
    /\ len >= 1
    /\ from + len - 1 <= Len(s)
    /\ AllDigits(SubSeq(s, from, from + len - 1))

\* the length of the run of digits of s that starts at position from
RECURSIVE DigitRun(_, _)
DigitRun(s, from) ==
    IF from <= Len(s) /\ IsDigit(s[from]) THEN 1 + DigitRun(s, from + 1) ELSE 0

\* the length of the run of whitespace of s that starts at position from
RECURSIVE SpaceRun(_, _)
SpaceRun(s, from) ==
    IF from <= Len(s) /\ IsSpace(s[from]) THEN 1 + SpaceRun(s, from + 1) ELSE 0

CharAt(s, i) == IF i >= 1 /\ i <= Len(s) THEN s[i] ELSE ""

\* one numeric field of the format at position from: its length, the
\* position after it and its value
FieldOf(s, from, len) ==
    [len  |-> len,
     next |-> from + len,
     val  |-> IF len \in 1..4 THEN DigitsToNat(SubSeq(s, from, from + len - 1)) ELSE 0]

Field(s, from) == FieldOf(s, from, DigitRun(s, from))

StrpEnd(s, y, mo, d, h, mi, sec) ==
    IF /\ sec.len \in 1..2 /\ sec.next - 1 = Len(s)
       /\ ValidDateTime(y.val, mo.val, d.val, h.val, mi.val, sec.val)
    THEN MkDate(y.val, mo.val, d.val)
    ELSE DateError

StrpSecond(s, y, mo, d, h, mi) ==
    IF mi.len \in 1..2 /\ CharAt(s, mi.next) = ":"
    THEN StrpEnd(s, y, mo, d, h, mi, Field(s, mi.next + 1))
    ELSE DateError

StrpMinute(s, y, mo, d, h) ==
    IF h.len \in 1..2 /\ CharAt(s, h.next) = ":"
    THEN StrpSecond(s, y, mo, d, h, Field(s, h.next + 1))
    ELSE DateError

\* the space of the format matches one or more whitespace characters
StrpHour(s, y, mo, d, ph) ==
    IF ph > d.next THEN StrpMinute(s, y, mo, d, Field(s, ph)) ELSE DateError

\* %d: a space-padded day has one digit
StrpGap(s, y, mo, pad, d) ==
    IF d.len \in 1..2 /\ (pad = 1 => d.len = 1)
    THEN StrpHour(s, y, mo, d, d.next + SpaceRun(s, d.next))
    ELSE DateError

StrpDayAt(s, y, mo, pad) == StrpGap(s, y, mo, pad, Field(s, mo.next + 1 + pad))

StrpDay(s, y, mo) ==
    IF mo.len \in 1..2 /\ CharAt(s, mo.next) = "-"
    THEN StrpDayAt(s, y, mo, IF CharAt(s, mo.next + 1) = " " THEN 1 ELSE 0)
    ELSE DateError

StrpMonth(s, y) ==
    IF y.len = 4 /\ CharAt(s, 5) = "-" THEN StrpDay(s, y, Field(s, 6)) ELSE DateError

\* datetime.strptime(s, "%Y-%m-%d %H:%M:%S"), reduced to the calendar date.
\* %Y is four digits; %m %d %H %M %S are one or two digits in range (%d may be
\* a space and one digit); the blank of the format matches one or more
\* whitespace characters; the whole text must be consumed.
Strptime(s) == StrpMonth(s, Field(s, 1))

\* "HH[:MM[:SS[.fff[fff]]]]" of datetime.fromisoformat
IsoTimeOk(t) ==
    LET n   == Len(t)
        num(i) == DigitsToNat(SubSeq(t, i, i + 1))
        two(i) == IsNumField(t, i, 2)
    IN  /\ n \in {2, 5, 8, 12, 15}
        /\ two(1) /\ num(1) <= 23
        /\ n >= 5 => (t[3] = ":" /\ two(4) /\ num(4) <= 59)
        /\ n >= 8 => (t[6] = ":" /\ two(7) /\ num(7) <= 59)
        /\ n >= 12 => (t[9] = "." /\ AllDigits(SubSeq(t, 10, n)))

\* datetime.fromisoformat(s), reduced to the calendar date: "YYYY-MM-DD",
\* optionally one separator character and a time, optionally a UTC offset
\* "+HH:MM" / "-HH:MM" after the time.
FromIsoFormat(s) ==
    LET n     == Len(s)
        rest  == SubSeq(s, 12, n)
        signs == {i \in 1..Len(rest) : rest[i] \in {"+", "-"}}
        cutAt == IF signs = {} THEN Len(rest) + 1
                 ELSE CHOOSE i \in signs : \A j \in signs : i <= j
        tpart == SubSeq(rest, 1, cutAt - 1)
        zpart == SubSeq(rest, cutAt + 1, Len(rest))
        y     == DigitsToNat(SubSeq(s, 1, 4))
        mo    == DigitsToNat(SubSeq(s, 6, 7))
        d     == DigitsToNat(SubSeq(s, 9, 10))
    IN  IF /\ n >= 10 /\ n # 11
           /\ IsNumField(s, 1, 4) /\ s[5] = "-"
           /\ IsNumField(s, 6, 2) /\ s[8] = "-"
           /\ IsNumField(s, 9, 2)
           /\ ValidDateTime(y, mo, d, 0, 0, 0)
           /\ n > 11 => /\ IsoTimeOk(tpart)
                        /\ signs # {} => (Len(zpart) = 5 /\ IsoTimeOk(zpart))
        THEN MkDate(y, mo, d)
        ELSE DateError

\* datetime.utcfromtimestamp(ms / 1000.0).date() for an integer ms given by
\* its sign and decimal digits: the day number floor(ms / 86400000), then the
\* proleptic Gregorian date of that day (day 0 is 1970-01-01)
RECURSIVE DivMod(_, _, _, _)
DivMod(ds, by, q, r) ==
    IF ds = <<>> THEN [q |-> q, r |-> r]
    ELSE LET cur == r * 10 + DigitVal(Head(ds))
         IN  DivMod(Tail(ds), by, q * 10 + cur \div by, cur % by)

DateFromDay(day) ==
    LET z   == day + 719468
        era == z \div 146097
        doe == z - era * 146097
        yoe == (doe - doe \div 1460 + doe \div 36524 - doe \div 146096) \div 365
        doy == doe - (365 * yoe + yoe \div 4 - yoe \div 100)
        mp  == (5 * doy + 2) \div 153
        d   == doy - (153 * mp + 2) \div 5 + 1
        mo  == IF mp < 10 THEN mp + 3 ELSE mp - 9
        y   == yoe + era * 400 + (IF mo <= 2 THEN 1 ELSE 0)
    IN  IF y >= 1 /\ y <= 9999 THEN MkDate(y, mo, d) ELSE DateError

UtcDateFromMillis(neg, digits) ==
    LET qr  == DivMod(digits, 86400000, 0, 0)
        day == IF ~neg \/ (qr.q = 0 /\ qr.r = 0) THEN qr.q
               ELSE IF qr.r = 0 THEN -qr.q ELSE -(qr.q + 1)
    IN  DateFromDay(day)

(***************************************************************************)
(* JSON values inside a price document                                     *)
(*   t = "absent"  the key is missing        t = "null"  JSON null          *)
(*   t = "str"     a string with text s      t = "num"   a number whose     *)
(*   t = "list"    a nested list                         literal is s       *)
(***************************************************************************)
JAbsent == [t |-> "absent", s |-> <<>>]

JNull == [t |-> "null", s |-> <<>>]

JList == [t |-> "list", s |-> <<>>]

JStr(s) == [t |-> "str", s |-> s]

JNum(s) == [t |-> "num", s |-> s]

\* dict.get(key) is None
IsNone(v) == v.t \in {"absent", "null"}

\* float(v): ok = FALSE stands for ValueError (bad text) or TypeError (a list)
JFloat(v) == IF v.t \in {"str", "num"} THEN PyFloat(v.s) ELSE FloatError

\* int(v): the day-resolved result of int(); ok = FALSE stands for ValueError
\* (text that is no integer) or TypeError (None, a list).  A JSON number with
\* a fraction truncates toward zero; a string must be an integer literal.
JIntParts(v) ==
    LET t      == Strip(v.s)
        signed == t # <<>> /\ Head(t) \in {"-", "+"}
        neg    == t # <<>> /\ Head(t) = "-"
        body   == IF signed THEN Tail(t) ELSE t
        dots   == {i \in 1..Len(body) : body[i] = "."}
        p      == IF dots = {} THEN Len(body) + 1 ELSE CHOOSE i \in dots : TRUE
        ip     == SubSeq(body, 1, p - 1)
    IN  IF v.t = "str" /\ body # <<>> /\ AllDigits(body)
        THEN [ok |-> TRUE, neg |-> neg, digits |-> body]
        ELSE IF v.t = "num" /\ ip # <<>> /\ AllDigits(ip)
        THEN [ok |-> TRUE, neg |-> neg, digits |-> ip]
        ELSE [ok |-> FALSE, neg |-> FALSE, digits |-> <<>>]

(***************************************************************************)
(* Price maps: functions from "YYYY-MM-DD" keys to floats                  *)
(***************************************************************************)
EmptyMap == [k \in {} |-> FloatZero]

\* faulty variant: a date already in the map keeps its first price
MapPutFirstWins(pm, key, value) ==
    [k \in DOMAIN pm \cup {key} |-> IF k \in DOMAIN pm THEN pm[k] ELSE value]

\* price_map[key] = value
MapPut(pm, key, value) ==
    [k \in DOMAIN pm \cup {key} |-> IF k = key THEN value ELSE pm[k]]

\* the result of one loop iteration of a loader: the map after it, and whether
\* an exception left the loop (and the function, and the script)
Continue(pm) == [raised |-> FALSE, map |-> pm]

Raise(pm) == [raised |-> TRUE, map |-> pm]

\* strip a trailing "Z", then datetime.fromisoformat
ParseIsoTimestamp(ts) ==
    LET ts_str == Strip(ts.s)
        cut    == IF ts_str # <<>> /\ ts_str[Len(ts_str)] = "Z"
                  THEN SubSeq(ts_str, 1, Len(ts_str) - 1)
                  ELSE ts_str
    IN  FromIsoFormat(cut)

\* load_price_map_stats, body of "for ts_ms, price in data.get('stats', [])":
\* nothing in it is guarded by try/except
StatsEntryStep(pm, entry) ==
    LET ts == JIntParts(entry.ts)
        d  == UtcDateFromMillis(ts.neg, ts.digits)
        pr == JFloat(entry.price)
    IN  IF entry.kind # "pair" THEN Raise(pm)          \* cannot unpack
        ELSE IF ~ts.ok THEN Raise(pm)                  \* int(ts_ms)
        ELSE IF ~d.ok THEN Raise(pm)                   \* utcfromtimestamp
        ELSE IF ~pr.ok THEN Raise(pm)                  \* float(price)
        ELSE Continue(MapPut(pm, IsoFormat(d), pr))

\* load_price_map_xy, body of "for entry in entries"
XyEntryStep(pm, entry) ==
    LET d  == ParseIsoTimestamp(entry.x)
        pr == JFloat(entry.y)
    IN  IF entry.kind # "dict" THEN Raise(pm)          \* entry.get: no such attribute
        ELSE IF IsNone(entry.x) \/ IsNone(entry.y) THEN Continue(pm)
        ELSE IF ~d.ok \/ ~pr.ok THEN Continue(pm)      \* except Exception: warn
        ELSE Continue(MapPut(pm, IsoFormat(d), pr))

\* load_price_map_mag_xrp_usd / load_mag_xrp_daily_map, body of the OHLC loop
OhlcEntryStep(pm, entry) ==
    LET d == ParseIsoTimestamp(entry.timestamp)
        o == JFloat(entry.open)
        c == JFloat(entry.close)
    IN  IF entry.kind # "dict" THEN Raise(pm)
        ELSE IF IsNone(entry.timestamp) \/ IsNone(entry.open) \/ IsNone(entry.close)
        THEN Continue(pm)
        ELSE IF ~d.ok \/ ~o.ok \/ ~c.ok THEN Continue(pm)
        ELSE Continue(MapPut(pm, IsoFormat(d), FloatAvg(o, c)))

\* a loader's loop over a whole entry list
RECURSIVE LoadEntries(_, _, _)
LoadEntries(Step(_, _), entries, pm) ==
    IF entries = <<>> THEN Continue(pm)
    ELSE LET r == Step(pm, Head(entries))
         IN  IF r.raised THEN r ELSE LoadEntries(Step, Tail(entries), r.map)

\* faulty variant: every MAG/XRP date is kept, priced 1:1 where XRP/USD is missing
CombineMapsAllBase(mag_xrp_map, xrp_usd_map) ==
    [d \in DOMAIN mag_xrp_map |->
        IF d \in DOMAIN xrp_usd_map
        THEN FloatMul(mag_xrp_map[d], xrp_usd_map[d])
        ELSE mag_xrp_map[d]]

\* the "combine" part of load_price_map_mag_xrp_usd
CombineMaps(mag_xrp_map, xrp_usd_map) ==
    LET common_dates == DOMAIN mag_xrp_map \cap DOMAIN xrp_usd_map
    IN  [d \in common_dates |-> FloatMul(mag_xrp_map[d], xrp_usd_map[d])]

(***************************************************************************)
(* Configuration of update_networth_multi.py                               *)
(***************************************************************************)
XRP_USD_PRICE_JSON == "xrp_price.json"

STX == <<"STX;1770845">>

TOKEN_CONFIG ==
    [c \in {STX} |-> [price_file |-> "stx_price.json", format |-> "xy"]]

\* the iteration order of TOKEN_CONFIG.items()
USDC == <<"USDC;7483231">>

RLUSD == <<"RLUSD;30660449">>

USDC2 == <<"USDC;5377860">>

STABLE_TOKENS == {USDC, RLUSD, USDC2}

NET_WORTH_CCY_VALUE == <<"USD;10">>

DATE_COL == "Date (UTC)"

TO_CCY_COL == "To Currency"

TO_AMT_COL == "To Amount"

FROM_CCY_COL == "From Currency"

FROM_AMT_COL == "From Amount"

NET_WORTH_AMT_COL == "Net Worth Amount"

NET_WORTH_CCY_COL == "Net Worth Currency"

(***************************************************************************)
(* Price documents and build_all_price_maps                                *)
(*   top      "dict", "list" or "other": the type of the JSON document      *)
(*   haskey   a dict document has its list key ("data" / "stats")           *)
(*   entries  the list (of the key, or the document itself)                 *)
(***************************************************************************)
MkDoc(top, haskey, entries) ==
    [top |-> top, haskey |-> haskey, entries |-> entries]

\* a loader's result: the map, or raised = TRUE when an exception left it
Loaded(pm) == [raised |-> FALSE, map |-> pm]

LoadFailed == [raised |-> TRUE, map |-> EmptyMap]

\* data.get(key, [])
DocGet(doc) == IF doc.haskey THEN doc.entries ELSE <<>>

load_price_map_stats(doc) ==
    IF doc.top # "dict" THEN LoadFailed               \* no attribute 'get'
    ELSE LoadEntries(StatsEntryStep, DocGet(doc), EmptyMap)

load_price_map_xy(doc) ==
    IF doc.top = "dict" THEN LoadEntries(XyEntryStep, DocGet(doc), EmptyMap)
    ELSE IF doc.top = "list" THEN LoadEntries(XyEntryStep, doc.entries, EmptyMap)
    ELSE LoadFailed                                   \* raise ValueError

load_price_map_mag_xrp_usd(mag_doc, xrp_doc) ==
    LET mag == IF mag_doc.top # "list" THEN LoadFailed
               ELSE LoadEntries(OhlcEntryStep, mag_doc.entries, EmptyMap)
        xrp == load_price_map_xy(xrp_doc)
    IN  IF mag.raised \/ xrp.raised THEN LoadFailed
        ELSE Loaded(CombineMaps(mag.map, xrp.map))

\* lines 290-300 of build_all_price_maps: the loader chosen by cfg["format"]
LoadFor(cfg, fs) ==
    IF cfg.format = "stats" THEN load_price_map_stats(fs[cfg.price_file])
    ELSE IF cfg.format = "xy" THEN load_price_map_xy(fs[cfg.price_file])
    ELSE IF cfg.format = "mag_xrp_usd"
    THEN load_price_map_mag_xrp_usd(fs[cfg.price_file], fs[XRP_USD_PRICE_JSON])
    ELSE LoadFailed                                   \* raise ValueError

\* build_all_price_maps(config), reading the documents of the file system
\* fs: one load per configured token; an exception in any load leaves the
\* function (and, called at line 307, the script)
AllMaps(loaded) ==
    IF \E t \in DOMAIN loaded : loaded[t].raised
    THEN [raised |-> TRUE, maps |-> [t \in {} |-> EmptyMap]]
    ELSE [raised |-> FALSE, maps |-> [t \in DOMAIN loaded |-> loaded[t].map]]

build_all_price_maps(config, fs) ==
    AllMaps([t \in DOMAIN config |-> LoadFor(config[t], fs)])

(***************************************************************************)
(* Rows and the helpers of the row loop                                    *)
(***************************************************************************)
\* Python's None as a cell value (DictReader's restval)
NoneVal == <<"\\None">>

Range(seq) == {seq[i] : i \in 1..Len(seq)}

\* row.get(col, "")
RowGet(row, col) == IF col \in DOMAIN row THEN row[col] ELSE <<>>

\* row[col] = value
RowSet(row, col, value) ==
    [c \in DOMAIN row \cup {col} |-> IF c = col THEN value ELSE row[c]]

\* the row csv.DictWriter(fieldnames).writerow(row) puts in the file
\* (a key missing from the dict is written as "", None is written as "")
WriteRow(fieldnames, row) ==
    [c \in Range(fieldnames) |->
        IF RowGet(row, c) = NoneVal THEN <<>> ELSE RowGet(row, c)]

\* parse_datetime_utc
parse_datetime_utc(s) ==
    LET t == Strip(s)
    IN  IF t = <<>> THEN DateError ELSE Strptime(t)

\* safe_float(value, default=0.0)
safe_float(value) ==
    LET t == IF value = NoneVal THEN <<>> ELSE Strip(value)
        f == PyFloat(t)
    IN  IF t = <<>> THEN FloatZero
        ELSE IF f.ok THEN f ELSE FloatZero

(***************************************************************************)
(* The row loop of update_networth_multi.py (lines 373-449)                *)
(***************************************************************************)
\* what one iteration does: the rows handed to writer.writerow, the
\* increments of the two counters, and the branch that ended the iteration
Emit(row, upd, skp, branch) ==
    [writes |-> <<row>>, updated |-> upd, skipped |-> skp, branch |-> branch]

\* lines 379-381: Net Worth Amount is already non-zero
AlreadyPricedBranch(row) == Emit(row, 0, 0, "already")

\* faulty variant: the branch continues without writing the row
NoTokenBranchDropped(row) ==
    [writes |-> <<>>, updated |-> 0, skipped |-> 0, branch |-> "no_token"]

\* lines 408-411: neither side is a known token
NoTokenBranch(row) == Emit(row, 0, 0, "no_token")

\* lines 414-417, 429-432, 438-442: skipped_rows += 1; writerow; continue
SkipBranch(row, why) == Emit(row, 0, 1, why)

\* faulty variant: the amount is rendered like a currency value, with 2 decimals
StableBranchTwoPlaces(row, amt) ==
    Emit(RowSet(RowSet(row, NET_WORTH_AMT_COL, FormatFixed(amt, 2)),
                NET_WORTH_CCY_COL, NET_WORTH_CCY_VALUE),
         1, 0, "stable")

\* lines 420-425: the stablecoin path
StableBranch(row, amt) ==
    Emit(RowSet(RowSet(row, NET_WORTH_AMT_COL, FormatFixed(amt, 8)),
                NET_WORTH_CCY_COL, NET_WORTH_CCY_VALUE),
         1, 0, "stable")

\* faulty variant: the fill also rewrites the amount column it read
PricedBranchClobber(row, amt, price) ==
    Emit(RowSet(RowSet(RowSet(row, NET_WORTH_AMT_COL,
                              FormatFixed(FloatMul(amt, price), 8)),
                       NET_WORTH_CCY_COL, NET_WORTH_CCY_VALUE),
                TO_AMT_COL, FormatFixed(amt, 8)),
         1, 0, "priced")

\* lines 444-449: the priced path once a price is found
PricedBranch(row, amt, price) ==
    Emit(RowSet(RowSet(row, NET_WORTH_AMT_COL, FormatFixed(FloatMul(amt, price), 8)),
                NET_WORTH_CCY_COL, NET_WORTH_CCY_VALUE),
         1, 0, "priced")

\* lines 383-411: the token, its amount text and the mode of a row
Selection(found, token_code, amt_raw, mode) ==
    [found |-> found, token_code |-> token_code, amt_raw |-> amt_raw, mode |-> mode]

\* faulty variant: the stable assets are looked at before the priced tokens
SelectTokenStableFirst(row) ==
    LET to_currency   == RowGet(row, TO_CCY_COL)
        from_currency == RowGet(row, FROM_CCY_COL)
    IN  IF to_currency \in STABLE_TOKENS
        THEN Selection(TRUE, to_currency, RowGet(row, TO_AMT_COL), "stable")
        ELSE IF from_currency \in STABLE_TOKENS
        THEN Selection(TRUE, from_currency, RowGet(row, FROM_AMT_COL), "stable")
        ELSE IF to_currency \in DOMAIN TOKEN_CONFIG
        THEN Selection(TRUE, to_currency, RowGet(row, TO_AMT_COL), "price")
        ELSE IF from_currency \in DOMAIN TOKEN_CONFIG
        THEN Selection(TRUE, from_currency, RowGet(row, FROM_AMT_COL), "price")
        ELSE Selection(FALSE, <<>>, <<>>, "none")

SelectToken(row) ==
    LET to_currency   == RowGet(row, TO_CCY_COL)
        from_currency == RowGet(row, FROM_CCY_COL)
    IN  IF to_currency \in DOMAIN TOKEN_CONFIG
        THEN Selection(TRUE, to_currency, RowGet(row, TO_AMT_COL), "price")
        ELSE IF from_currency \in DOMAIN TOKEN_CONFIG
        THEN Selection(TRUE, from_currency, RowGet(row, FROM_AMT_COL), "price")
        ELSE IF to_currency \in STABLE_TOKENS
        THEN Selection(TRUE, to_currency, RowGet(row, TO_AMT_COL), "stable")
        ELSE IF from_currency \in STABLE_TOKENS
        THEN Selection(TRUE, from_currency, RowGet(row, FROM_AMT_COL), "stable")
        ELSE Selection(FALSE, <<>>, <<>>, "none")

\* faulty variant: a date without a price gets the price 0.0 (.get(date_key, 0.0))
LookupPriceDefault(maps, token_code, date_key) ==
    IF token_code \in DOMAIN maps /\ date_key \in DOMAIN maps[token_code]
    THEN maps[token_code][date_key]
    ELSE FloatZero

\* lines 434-436: price_maps_by_token.get(token_code, {}).get(date_key);
\* ok = FALSE stands for None
LookupPrice(maps, token_code, date_key) ==
    IF token_code \in DOMAIN maps /\ date_key \in DOMAIN maps[token_code]
    THEN maps[token_code][date_key]
    ELSE FloatError

\* lines 427-449: the priced-token path
PricedPath(row, sel, amt, maps) ==
    LET dt_obj == parse_datetime_utc(RowGet(row, DATE_COL))
        price  == LookupPrice(maps, sel.token_code, IsoFormat(dt_obj))
    IN  IF ~dt_obj.ok THEN SkipBranch(row, "bad_date")
        ELSE IF ~price.ok THEN SkipBranch(row, "no_price")
        ELSE PricedBranch(row, amt, price)

\* the body of "for row in reader"
ProcessOneRow(row, maps) ==
    LET current_net == safe_float(RowGet(row, NET_WORTH_AMT_COL))
        sel         == SelectToken(row)
        amt         == safe_float(sel.amt_raw)
    IN  IF ~IsZero(current_net) THEN AlreadyPricedBranch(row)
        ELSE IF ~sel.found THEN NoTokenBranch(row)
        ELSE IF IsZero(amt) THEN SkipBranch(row, "zero_amount")
        ELSE IF sel.mode = "stable" THEN StableBranch(row, amt)
        ELSE PricedPath(row, sel, amt, maps)

\* lines 353-368: the required-column check; it appends Net Worth Currency
RequiredCols ==
    <<DATE_COL, TO_CCY_COL, TO_AMT_COL, FROM_CCY_COL, FROM_AMT_COL,
      NET_WORTH_AMT_COL, NET_WORTH_CCY_COL>>

RECURSIVE CheckCols(_, _)
CheckCols(required, fieldnames) ==
    IF required = <<>> THEN [raised |-> FALSE, fieldnames |-> fieldnames]
    ELSE IF Head(required) \in Range(fieldnames)
    THEN CheckCols(Tail(required), fieldnames)
    ELSE IF Head(required) = NET_WORTH_CCY_COL
    THEN CheckCols(Tail(required), Append(fieldnames, NET_WORTH_CCY_COL))
    ELSE [raised |-> TRUE, fieldnames |-> fieldnames]

\* the dict csv.DictReader yields for a line holding one cell per header
\* column: a fieldname appended after the header was read gets restval None
ReadRow(header, fieldnames, cells) ==
    [c \in Range(fieldnames) |->
        IF c \in Range(header) THEN cells[c] ELSE NoneVal]

(***************************************************************************)
(* Inputs of the model                                                     *)
(***************************************************************************)
\* the most rows a run reads
MaxRows == 2

\* the most entries a loader reads from one price document
MaxEntries == 2

LABEL_COL == "Label"

FullHeader ==
    <<DATE_COL, LABEL_COL, FROM_AMT_COL, FROM_CCY_COL, TO_AMT_COL, TO_CCY_COL,
      NET_WORTH_AMT_COL, NET_WORTH_CCY_COL>>

T_EMPTY == <<>>

D_HIT == <<"2", "0", "2", "4", "-", "0", "3", "-", "0", "5", " ", "1", "0", ":", "0", "0", ":", "0", "0">>

D_ZERO_PRICE == <<"2", "0", "2", "4", "-", "0", "3", "-", "0", "6", " ", "2", "3", ":", "5", "9", ":", "5", "9">>

D_MISS == <<"2", "0", "2", "4", "-", "0", "3", "-", "0", "7", " ", "0", "0", ":", "0", "0", ":", "0", "0">>

D_ISO == <<"2", "0", "2", "4", "-", "0", "3", "-", "0", "5", "T", "1", "0", ":", "0", "0", ":", "0", "0">>

D_LOOSE == <<" ", "2", "0", "2", "4", "-", "3", "-", "5", " ", "1", ":", "0", "2", ":", "0", "3">>

A_TWO == <<"2">>

A_FIVE == <<"5">>

A_SEVEN == <<"7", ".", "5">>

A_ZERO == <<"0">>

A_BAD == <<"x">>

A_TINY == <<"0", ".", "0", "0", "0", "0", "0", "0", "0", "0", "1">>

A_SPEC == <<"1", "5", "0", ".", "2", "5", "0", "0", "0", "0", "0", "0">>

T_BAD == <<"x">>

TS_HIT_Z == <<"2", "0", "2", "4", "-", "0", "3", "-", "0", "5", "T", "2", "2", ":", "0", "0", ":", "0", "0", "Z">>

TS_ZERO_PRICE == <<"2", "0", "2", "4", "-", "0", "3", "-", "0", "6", "T", "2", "2", ":", "0", "0", ":", "0", "0", "Z">>

TS_HIT_DATE == <<"2", "0", "2", "4", "-", "0", "3", "-", "0", "5">>

TS_MISS == <<"2", "0", "2", "4", "-", "0", "3", "-", "0", "7", "T", "0", "0", ":", "0", "0", ":", "0", "1">>

P_HALF == <<"0", ".", "5">>

P_THREE == <<"3">>

P_QUARTER == <<"0", ".", "2", "5">>

MS_HIT == <<"1", "7", "0", "9", "5", "9", "6", "8", "0", "0", "0", "0", "0">>

MS_HIT_LATE == <<"1", "7", "0", "9", "6", "8", "3", "1", "9", "9", "0", "0", "0">>

MS_NEXT == <<"1", "7", "0", "9", "6", "8", "3", "2", "0", "0", "0", "0", "0">>

P_THREE_F == <<"3", ".", "0">>

P_ONE_HALF == <<"1", ".", "5">>

P_TWO_HALF == <<"2", ".", "5">>

TS_K1_LATE == <<"2", "0", "2", "4", "-", "0", "1", "-", "0", "1", "T", "2", "1", ":", "0", "0", ":", "0", "0", "Z">>

TS_K1_EARLY == <<"2", "0", "2", "4", "-", "0", "1", "-", "0", "1", "T", "0", "0", ":", "0", "0", ":", "0", "1">>

TS_K2 == <<"2", "0", "2", "4", "-", "0", "1", "-", "0", "2", "T", "2", "1", ":", "0", "0", ":", "0", "0", "Z">>

TS_K3 == <<"2", "0", "2", "4", "-", "0", "1", "-", "0", "3">>

TS_K1_MS == <<"2", "0", "2", "4", "-", "0", "1", "-", "0", "1", "T", "0", "0", ":", "0", "0", ":", "0", "0", ".", "0", "0", "0", "Z">>

TS_K2_MS == <<"2", "0", "2", "4", "-", "0", "1", "-", "0", "2", "T", "2", "3", ":", "5", "9", ":", "5", "9", ".", "0", "0", "0", "Z">>

TS_K4 == <<"2", "0", "2", "4", "-", "0", "1", "-", "0", "4", " ", "1", "2", ":", "0", "0">>

K1 == <<"2", "0", "2", "4", "-", "0", "1", "-", "0", "1">>

K2 == <<"2", "0", "2", "4", "-", "0", "1", "-", "0", "2">>

XRP == <<"XRP;3">>

MkRow(date, to_ccy, to_amt, from_ccy, from_amt, net, net_ccy) ==
    [c \in Range(FullHeader) |->
        IF c = DATE_COL THEN date
        ELSE IF c = LABEL_COL THEN <<"swap">>
        ELSE IF c = TO_CCY_COL THEN to_ccy
        ELSE IF c = TO_AMT_COL THEN to_amt
        ELSE IF c = FROM_CCY_COL THEN from_ccy
        ELSE IF c = FROM_AMT_COL THEN from_amt
        ELSE IF c = NET_WORTH_AMT_COL THEN net
        ELSE net_ccy]

\* the lines of the input file: one cell per column of FullHeader
RowSamples ==
    \* a net worth that is set; one that is no number (read as zero)
    { MkRow(D_HIT, STX, A_TWO, USDC, A_FIVE, net, NET_WORTH_CCY_VALUE) :
        net \in {A_SEVEN, A_BAD} }
    \* neither side known
    \cup { MkRow(D_HIT, XRP, A_TWO, XRP, A_FIVE, A_ZERO, T_EMPTY) }
    \* a priced token on the "to" side (a stable asset on the other): every
    \* kind of date
    \cup { MkRow(date, STX, A_TWO, USDC, A_FIVE, T_EMPTY, T_EMPTY) :
             date \in {D_HIT, D_ZERO_PRICE, D_MISS, D_ISO, T_EMPTY} }
    \cup { MkRow(D_HIT, STX, A_TINY, XRP, A_FIVE, T_EMPTY, T_EMPTY) }
    \* ... and every kind of zero amount
    \cup { MkRow(D_HIT, STX, amt, USDC, A_FIVE, A_ZERO, T_EMPTY) :
             amt \in {A_ZERO, T_EMPTY, A_BAD} }
    \cup { MkRow(D_HIT, STX, A_ZERO, STX, A_FIVE, A_ZERO, T_EMPTY) }
    \* a priced token on the "from" side only
    \cup { MkRow(D_LOOSE, USDC, A_FIVE, STX, A_TWO, T_EMPTY, T_EMPTY),
           MkRow(D_MISS, XRP, A_FIVE, STX, A_TWO, T_EMPTY, T_EMPTY) }
    \* stable assets only
    \cup { MkRow(D_HIT, USDC, A_SPEC, XRP, A_FIVE, T_EMPTY, T_EMPTY),
           MkRow(D_ISO, USDC, A_SPEC, RLUSD, A_FIVE, T_EMPTY, T_EMPTY),
           MkRow(D_ISO, USDC, A_TINY, XRP, A_FIVE, T_EMPTY, T_EMPTY),
           MkRow(D_HIT, RLUSD, A_ZERO, USDC, A_FIVE, T_EMPTY, T_EMPTY) }
    \cup { MkRow(D_MISS, XRP, A_TWO, USDC2, amt, A_ZERO, T_EMPTY) :
             amt \in {A_FIVE, T_EMPTY} }

XyEntry(x, y) == [kind |-> "dict", x |-> x, y |-> y]

XyNotADict == [kind |-> "other", x |-> JAbsent, y |-> JAbsent]

\* the documents stx_price.json may hold
DocDict ==
    MkDoc("dict", TRUE,
          << XyEntry(JStr(TS_HIT_Z), JNum(P_HALF)),
             XyEntry(JStr(T_BAD), JNum(P_THREE)),
             XyEntry(JStr(TS_ZERO_PRICE), JStr(A_ZERO)) >>)

DocList ==
    MkDoc("list", FALSE,
          << XyEntry(JStr(TS_HIT_DATE), JNum(P_THREE)),
             XyEntry(JStr(TS_MISS), JNull),
             XyEntry(JStr(TS_MISS), JNum(P_QUARTER)) >>)

DocNotAList == MkDoc("other", FALSE, <<>>)

DocBadEntry == MkDoc("dict", TRUE, << XyNotADict >>)

HeaderFull == [ok |-> TRUE, cols |-> FullHeader]

HeaderNoCcy == [ok |-> TRUE, cols |-> SubSeq(FullHeader, 1, 7)]

HeaderNoToAmt ==
    [ok |-> TRUE, cols |-> SubSeq(FullHeader, 1, 4) \o SubSeq(FullHeader, 6, 8)]

\* header = None: the input file is empty
HeaderNone == [ok |-> FALSE, cols |-> <<>>]

\* the files a run starts from: the price document and the input's header
StartSamples ==
    { <<DocDict, HeaderFull>>, <<DocList, HeaderNoCcy>>,
      <<DocNotAList, HeaderFull>>, <<DocBadEntry, HeaderNoCcy>>,
      <<DocDict, HeaderNoToAmt>>, <<DocList, HeaderNone>> }

(***************************************************************************)
(* State                                                                   *)
(***************************************************************************)
VARIABLES
    script,               \* which script runs: "update_networth_multi" or
                          \* "aps_update"
    pc,                   \* where the script is: "start", "open", "header",
                          \* "loop", "done", or "fatal" (an uncaught exception)
    run,                  \* 1: the first run; 2: the re-run on its own output
    fs,                   \* the price documents on disk, by file name
    infile,               \* INPUT_CSV: its header and the lines not yet read
    price_maps_by_token,  \* the module-level price maps
    fieldnames,           \* reader.fieldnames (shared with the writer)
    outfile,              \* OUTPUT_CSV: touched (created or truncated), the
                          \* header line once written, the data rows
    inRows,               \* the rows the reader has yielded so far
    updated_rows,
    skipped_rows,
    branch,               \* the branch the last row took
    \* a price-map loader run on its own, entry by entry
    job,                  \* "stats", "xy", "mag_xrp_usd" (the loaders of
                          \* update_networth_multi.py), "mag_custom_price"
                          \* (that script), or "none"
    ld_pc,                \* "open", "entries", "combine", "write", "done",
                          \* "fatal" (an exception left the loader), "idle"
    phase,                \* 1: first document; 2: the XRP/USD document
    ld_doc,               \* the open document: its type and list key
    ld_price_map,         \* price_map: the map the running loop fills
    seen,                 \* the entries the running loop has read
    mag_xrp_map,
    xrp_usd_map,
    combined,             \* the MAG/USD map of load_price_map_mag_xrp_usd
    common_dates,         \* mag_custom_price.py: the dates still to write
    csv_rows              \* mag_custom_price.py: the lines written

rowvars ==
    <<script, pc, run, fs, infile, price_maps_by_token, fieldnames, outfile, inRows,
      updated_rows, skipped_rows, branch>>

ldvars ==
    <<job, ld_pc, phase, ld_doc, ld_price_map, seen, mag_xrp_map, xrp_usd_map,
      combined, common_dates, csv_rows>>

vars == <<rowvars, ldvars>>

NoDoc == [top |-> "none", haskey |-> FALSE]

\* no loader runs on its own
LoaderIdle ==
    /\ job = "none"
    /\ ld_pc = "idle"
    /\ phase = 1
    /\ ld_doc = NoDoc
    /\ ld_price_map = EmptyMap
    /\ seen = <<>>
    /\ mag_xrp_map = EmptyMap
    /\ xrp_usd_map = EmptyMap
    /\ combined = EmptyMap
    /\ common_dates = <<>>
    /\ csv_rows = <<>>

Untouched == [touched |-> FALSE, header |-> <<>>, rows |-> <<>>]

NoMaps == [t \in {} |-> EmptyMap]

Init ==
    /\ script = "update_networth_multi"
    /\ pc = "start"
    /\ run = 1
    /\ \E st \in StartSamples :
          /\ fs = [f \in {"stx_price.json"} |-> st[1]]
          /\ infile = [header |-> st[2], rows |-> <<>>]
    /\ price_maps_by_token = NoMaps
    /\ fieldnames = <<>>
    /\ outfile = Untouched
    /\ inRows = <<>>
    /\ updated_rows = 0
    /\ skipped_rows = 0
    /\ branch = "none"
    /\ LoaderIdle

\* line 307: price_maps_by_token = build_all_price_maps(TOKEN_CONFIG)
BuildPriceMaps ==
    /\ script = "update_networth_multi"
    /\ pc = "start"
    /\ \E r \in {build_all_price_maps(TOKEN_CONFIG, fs)} :
          /\ pc' = IF r.raised THEN "fatal" ELSE "open"
          /\ price_maps_by_token' = IF r.raised THEN NoMaps ELSE r.maps
    /\ UNCHANGED <<script, run, fs, infile, fieldnames, outfile, inRows,
                   updated_rows, skipped_rows, branch>>
    /\ UNCHANGED ldvars

\* lines 341-345: the counters; open(INPUT_CSV), open(OUTPUT_CSV, "w")
OpenFiles ==
    /\ script = "update_networth_multi"
    /\ pc = "open"
    /\ pc' = "header"
    /\ updated_rows' = 0
    /\ skipped_rows' = 0
    /\ outfile' = [touched |-> TRUE, header |-> <<>>, rows |-> <<>>]
    /\ UNCHANGED <<script, run, fs, infile, price_maps_by_token, fieldnames,
                   inRows, branch>>
    /\ UNCHANGED ldvars

\* lines 347-371: the header, the required columns, writer.writeheader()
ReadHeader ==
    /\ script = "update_networth_multi"
    /\ pc = "header"
    /\ LET r == CheckCols(RequiredCols, infile.header.cols)
       IN  IF ~infile.header.ok \/ r.raised
           THEN /\ pc' = "fatal"
                /\ UNCHANGED <<fieldnames, outfile>>
           ELSE /\ pc' = "loop"
                /\ fieldnames' = r.fieldnames
                /\ outfile' = [outfile EXCEPT !.header = r.fieldnames]
    /\ UNCHANGED <<script, run, fs, infile, price_maps_by_token, inRows,
                   updated_rows, skipped_rows, branch>>
    /\ UNCHANGED ldvars

\* lines 373-449: one iteration of "for row in reader" on the line `cells`
RowStep(cells) ==
    LET row == ReadRow(infile.header.cols, fieldnames, cells)
        r   == ProcessOneRow(row, price_maps_by_token)
    IN  /\ inRows' = Append(inRows, row)
        /\ outfile' = [outfile EXCEPT !.rows =
                          @ \o [i \in 1..Len(r.writes) |->
                                   WriteRow(fieldnames, r.writes[i])]]
        /\ updated_rows' = updated_rows + r.updated
        /\ skipped_rows' = skipped_rows + r.skipped
        /\ branch' = r.branch

\* first run: the next line of the input is any sample line
ProcessRow ==
    /\ script = "update_networth_multi"
    /\ pc = "loop" /\ run = 1
    /\ Len(inRows) < MaxRows
    /\ \E cells \in RowSamples : RowStep(cells)
    /\ UNCHANGED <<script, pc, run, fs, infile, price_maps_by_token, fieldnames>>
    /\ UNCHANGED ldvars

\* re-run: the next line is the next row the first run wrote
ProcessOwnRow ==
    /\ script = "update_networth_multi"
    /\ pc = "loop" /\ run = 2
    /\ infile.rows # <<>>
    /\ RowStep(Head(infile.rows))
    /\ infile' = [infile EXCEPT !.rows = Tail(@)]
    /\ UNCHANGED <<script, pc, run, fs, price_maps_by_token, fieldnames>>
    /\ UNCHANGED ldvars

\* the reader is exhausted: lines 451-454
EndOfInput ==
    /\ script = "update_networth_multi"
    /\ pc = "loop"
    /\ infile.rows = <<>>
    /\ pc' = "done"
    /\ UNCHANGED <<script, run, fs, infile, price_maps_by_token, fieldnames, outfile,
                   inRows, updated_rows, skipped_rows, branch>>
    /\ UNCHANGED ldvars

\* the script is started again with the same price files, on the file the
\* first run wrote
Rerun ==
    /\ script = "update_networth_multi"
    /\ pc = "done" /\ run = 1
    /\ run' = 2
    /\ pc' = "start"
    /\ infile' = [header |-> [ok |-> TRUE, cols |-> outfile.header],
                  rows |-> outfile.rows]
    /\ price_maps_by_token' = NoMaps
    /\ fieldnames' = <<>>
    /\ outfile' = Untouched
    /\ inRows' = <<>>
    /\ updated_rows' = 0
    /\ skipped_rows' = 0
    /\ branch' = "none"
    /\ UNCHANGED <<script, fs>>
    /\ UNCHANGED ldvars

Next ==
    \/ BuildPriceMaps
    \/ OpenFiles
    \/ ReadHeader
    \/ ProcessRow
    \/ ProcessOwnRow
    \/ EndOfInput
    \/ Rerun

Spec == Init /\ [][Next]_vars

(***************************************************************************)
(* aps_update.py                                                           *)
(***************************************************************************)
APS_TOKEN_CODE == <<"APS;16884676">>

\* load_local_price_map: the same loop as load_price_map_stats
load_local_price_map(doc) ==
    IF doc.top # "dict" THEN LoadFailed
    ELSE LoadEntries(StatsEntryStep, DocGet(doc), EmptyMap)

\* lines 60-94: the body of "for row in reader" before writer.writerow(row)
ApsOneRow(row, price_map) ==
    LET to_currency   == RowGet(row, TO_CCY_COL)
        net_raw       == Strip(RowGet(row, NET_WORTH_AMT_COL))
        to_amount_raw == Strip(RowGet(row, TO_AMT_COL))
        date_raw      == Strip(RowGet(row, DATE_COL))
        is_aps        == to_currency = APS_TOKEN_CODE
        current_net   == IF net_raw # <<>> /\ PyFloat(net_raw).ok
                         THEN PyFloat(net_raw) ELSE FloatZero
        dt_obj        == parse_datetime_utc(date_raw)
        date_key      == IsoFormat(dt_obj)
        amt           == PyFloat(to_amount_raw)
    IN  IF ~(is_aps /\ IsZero(current_net) /\ to_amount_raw # <<>>)
        THEN Emit(row, 0, 0, "not_mine")
        ELSE IF ~dt_obj.ok THEN Emit(row, 0, 1, "bad_date")
        ELSE IF date_key \notin DOMAIN price_map THEN Emit(row, 0, 1, "no_price")
        ELSE IF ~amt.ok THEN Emit(row, 0, 1, "bad_amount")
        ELSE Emit(RowSet(RowSet(row, NET_WORTH_AMT_COL,
                                FormatFixed(FloatMul(amt, price_map[date_key]), 8)),
                         NET_WORTH_CCY_COL, <<"USD;10">>),
                  1, 0, "priced")

StatsPair(ts, price) == [kind |-> "pair", ts |-> ts, price |-> price]

StatsDoc ==
    MkDoc("dict", TRUE,
          << StatsPair(JNum(MS_HIT), JNum(P_HALF)),
             StatsPair(JStr(MS_HIT_LATE), JStr(P_THREE)) >>)

ApsStartSamples ==
    { <<StatsDoc, HeaderFull>>, <<StatsDoc, HeaderNoCcy>>,
      <<MkDoc("list", FALSE, <<>>), HeaderFull>>,
      <<StatsDoc, [ok |-> TRUE, cols |-> SubSeq(FullHeader, 1, 6)]>>,
      <<StatsDoc, HeaderNone>> }

ApsRowSamples ==
    { MkRow(date, APS_TOKEN_CODE, amt, XRP, A_FIVE, T_EMPTY, T_EMPTY) :
        date \in {D_HIT, D_MISS, D_ISO},
        amt \in {A_TWO, A_ZERO, T_EMPTY, A_BAD} }
    \cup { MkRow(D_HIT, APS_TOKEN_CODE, A_TWO, XRP, A_FIVE, A_SEVEN, NET_WORTH_CCY_VALUE),
           MkRow(D_HIT, APS_TOKEN_CODE, A_TINY, XRP, A_FIVE, A_ZERO, T_EMPTY),
           MkRow(D_HIT, STX, A_TWO, APS_TOKEN_CODE, A_FIVE, T_EMPTY, T_EMPTY) }

InitAps ==
    /\ script = "aps_update"
    /\ pc = "start"
    /\ run = 1
    /\ \E st \in ApsStartSamples :
          /\ fs = [f \in {"aps_price.json"} |-> st[1]]
          /\ infile = [header |-> st[2], rows |-> <<>>]
    /\ price_maps_by_token = NoMaps
    /\ fieldnames = <<>>
    /\ outfile = Untouched
    /\ inRows = <<>>
    /\ updated_rows = 0
    /\ skipped_rows = 0
    /\ branch = "none"
    /\ LoaderIdle

\* line 29: price_map = load_local_price_map(PRICE_JSON); the map is kept
\* under the one token of this script
ApsLoadPriceMap ==
    /\ script = "aps_update"
    /\ pc = "start"
    /\ LET r == load_local_price_map(fs["aps_price.json"])
       IN  /\ pc' = IF r.raised THEN "fatal" ELSE "open"
           /\ price_maps_by_token' =
                 IF r.raised THEN NoMaps
                 ELSE [t \in {APS_TOKEN_CODE} |-> r.map]
    /\ UNCHANGED <<script, run, fs, infile, fieldnames, outfile, inRows,
                   updated_rows, skipped_rows, branch>>
    /\ UNCHANGED ldvars

\* lines 44-48
ApsOpenFiles ==
    /\ script = "aps_update"
    /\ pc = "open"
    /\ pc' = "header"
    /\ updated_rows' = 0
    /\ skipped_rows' = 0
    /\ outfile' = [touched |-> TRUE, header |-> <<>>, rows |-> <<>>]
    /\ UNCHANGED <<script, run, fs, infile, price_maps_by_token, fieldnames,
                   inRows, branch>>
    /\ UNCHANGED ldvars

\* lines 50-57
ApsReadHeader ==
    /\ script = "aps_update"
    /\ pc = "header"
    /\ IF ~infile.header.ok \/ NET_WORTH_AMT_COL \notin Range(infile.header.cols)
       THEN /\ pc' = "fatal"
            /\ UNCHANGED <<fieldnames, outfile>>
       ELSE /\ pc' = "loop"
            /\ fieldnames' = infile.header.cols
            /\ outfile' = [outfile EXCEPT !.header = infile.header.cols]
    /\ UNCHANGED <<script, run, fs, infile, price_maps_by_token, inRows,
                   updated_rows, skipped_rows, branch>>
    /\ UNCHANGED ldvars

\* lines 59-96: one iteration; DictWriter.writerow raises ValueError when the
\* row has a key that is no fieldname
ApsProcessRow ==
    /\ script = "aps_update"
    /\ pc = "loop"
    /\ Len(inRows) < MaxRows
    /\ \E cells \in ApsRowSamples :
          LET row == ReadRow(infile.header.cols, fieldnames, cells)
              r   == ApsOneRow(row, price_maps_by_token[APS_TOKEN_CODE])
              out == r.writes[1]
          IN  /\ inRows' = Append(inRows, row)
              /\ updated_rows' = updated_rows + r.updated
              /\ skipped_rows' = skipped_rows + r.skipped
              /\ branch' = r.branch
              /\ IF DOMAIN out \subseteq Range(fieldnames)
                 THEN /\ outfile' = [outfile EXCEPT !.rows =
                                        Append(@, WriteRow(fieldnames, out))]
                      /\ pc' = pc
                 ELSE /\ outfile' = outfile
                      /\ pc' = "fatal"
    /\ UNCHANGED <<script, run, fs, infile, price_maps_by_token, fieldnames>>
    /\ UNCHANGED ldvars

\* lines 98-101
ApsEndOfInput ==
    /\ script = "aps_update"
    /\ pc = "loop"
    /\ pc' = "done"
    /\ UNCHANGED <<script, run, fs, infile, price_maps_by_token, fieldnames,
                   outfile, inRows, updated_rows, skipped_rows, branch>>
    /\ UNCHANGED ldvars

NextAps ==
    \/ ApsLoadPriceMap
    \/ ApsOpenFiles
    \/ ApsReadHeader
    \/ ApsProcessRow
    \/ ApsEndOfInput

SpecAps == InitAps /\ [][NextAps]_vars

(***************************************************************************)
(* Properties of the row loop of update_networth_multi.py                  *)
(***************************************************************************)
Last(seq) == seq[Len(seq)]

InLoop == pc \in {"loop", "done"}

\* a row step has just been taken (between the unprimed and primed state)
RowTaken == pc = "loop" /\ Len(inRows') = Len(inRows) + 1

\* the row the step read, and what the file holds if it is written unchanged
NewRow == inRows'[Len(inRows')]

AsRead(row) == WriteRow(fieldnames, row)

NetIsZero(row) == IsZero(safe_float(RowGet(row, NET_WORTH_AMT_COL)))

ToKnown(row) == RowGet(row, TO_CCY_COL) \in DOMAIN TOKEN_CONFIG

FromKnown(row) == RowGet(row, FROM_CCY_COL) \in DOMAIN TOKEN_CONFIG

ToStable(row) == RowGet(row, TO_CCY_COL) \in STABLE_TOKENS

FromStable(row) == RowGet(row, FROM_CCY_COL) \in STABLE_TOKENS

\* C1: once the header is accepted every input row is written exactly once
\* and in input order: after k rows are read the output holds k data rows and
\* the i-th output row is the i-th input row in every column but the two
\* net-worth columns.
C1_EveryRowOnceInOrder ==
    InLoop =>
        /\ Len(outfile.rows) = Len(inRows)
        /\ \A i \in 1..Len(inRows) :
              \A c \in Range(fieldnames) \ {NET_WORTH_AMT_COL, NET_WORTH_CCY_COL} :
                 /\ i <= Len(outfile.rows)
                 /\ outfile.rows[i][c] = inRows[i][c]

\* two different rows were read, one was filled and one skipped, and the run
\* ended
C1_Witness ==
    /\ pc = "done" /\ run = 1
    /\ Len(inRows) = 2 /\ inRows[1] # inRows[2]
    /\ updated_rows = 1 /\ skipped_rows = 1

\* C2: re-running the loop on the output of a first run performs zero
\* updates and writes the same file again.
C2_RerunUpdatesNothing ==
    (run = 2 /\ pc = "done") =>
        /\ updated_rows = 0
        /\ outfile.rows = inRows

\* C3: the (token, amount, mode) of a row with zero net worth follows the
\* precedence to-priced, from-priced, to-stable, from-stable, none; a row
\* with a priced token on one side is never resolved in stable mode.
C3_Expected(row) ==
    CASE ToKnown(row) ->
           Selection(TRUE, row[TO_CCY_COL], row[TO_AMT_COL], "price")
      [] ~ToKnown(row) /\ FromKnown(row) ->
           Selection(TRUE, row[FROM_CCY_COL], row[FROM_AMT_COL], "price")
      [] ~ToKnown(row) /\ ~FromKnown(row) /\ ToStable(row) ->
           Selection(TRUE, row[TO_CCY_COL], row[TO_AMT_COL], "stable")
      [] ~ToKnown(row) /\ ~FromKnown(row) /\ ~ToStable(row) /\ FromStable(row) ->
           Selection(TRUE, row[FROM_CCY_COL], row[FROM_AMT_COL], "stable")
      [] OTHER -> Selection(FALSE, <<>>, <<>>, "none")

C3_TokenPrecedence ==
    (InLoop /\ inRows # <<>> /\ NetIsZero(Last(inRows))) =>
        LET row == Last(inRows)
            out == outfile.rows[Len(inRows)]
        IN  /\ SelectToken(row) = C3_Expected(row)
            /\ (ToKnown(row) \/ FromKnown(row)) => branch # "stable"
            /\ (~ToKnown(row) /\ ~FromKnown(row) /\ ~ToStable(row) /\ ~FromStable(row))
                  => (branch = "no_token" /\ out = AsRead(row))
            \* the amount that was used is the one of the selected side
            /\ branch = "stable" =>
                  out[NET_WORTH_AMT_COL]
                     = FormatFixed(safe_float(C3_Expected(row).amt_raw), 8)
            /\ branch = "zero_amount" => IsZero(safe_float(C3_Expected(row).amt_raw))

\* "to" is a priced token, "from" a stable asset, and the row was priced with
\* the "to" amount (2 * 0.5)
C3_Witness ==
    /\ InLoop /\ inRows # <<>>
    /\ ToKnown(Last(inRows)) /\ FromStable(Last(inRows))
    /\ branch = "priced"
    /\ Last(outfile.rows)[NET_WORTH_AMT_COL]
          = <<"1", ".", "0", "0", "0", "0", "0", "0", "0", "0">>

\* C4: a row with zero net worth, a selected priced token and a non-zero
\* amount whose date does not parse, or whose date has no price in the
\* token's map, is written as read, adds one to skipped_rows and leaves
\* updated_rows alone.
C4_Pre(row) ==
    LET sel == C3_Expected(row)
        d   == parse_datetime_utc(RowGet(row, DATE_COL))
    IN  /\ NetIsZero(row)
        /\ sel.mode = "price"
        /\ ~IsZero(safe_float(sel.amt_raw))
        /\ \/ ~d.ok
           \/ IsoFormat(d) \notin DOMAIN price_maps_by_token[sel.token_code]

C4_SkipOnBadDateOrNoPrice ==
    [][(RowTaken /\ C4_Pre(NewRow)) =>
          /\ outfile'.rows = Append(outfile.rows, AsRead(NewRow))
          /\ skipped_rows' = skipped_rows + 1
          /\ updated_rows' = updated_rows]_vars

\* a row whose date parses but has no price was skipped
C4_Witness ==
    /\ InLoop /\ inRows # <<>>
    /\ C4_Pre(Last(inRows))
    /\ parse_datetime_utc(RowGet(Last(inRows), DATE_COL)).ok
    /\ branch = "no_price" /\ skipped_rows >= 1

\* C5: in both row loops a row whose net worth is zero and whose selected
\* transfer amount parses to exactly zero (blank and unparsable included) is
\* written with its net-worth fields as read, adds one to skipped_rows and
\* none to updated_rows, whether or not its date has a price.
C5_Selected(row) ==
    IF script = "aps_update"
    THEN IF RowGet(row, TO_CCY_COL) = APS_TOKEN_CODE
         THEN Selection(TRUE, APS_TOKEN_CODE, RowGet(row, TO_AMT_COL), "price")
         ELSE Selection(FALSE, <<>>, <<>>, "none")
    ELSE C3_Expected(row)

C5_ZeroAmountNeverPriced ==
    [][(/\ RowTaken
        /\ NetIsZero(NewRow)
        /\ C5_Selected(NewRow).found
        /\ IsZero(safe_float(C5_Selected(NewRow).amt_raw))) =>
          /\ outfile'.rows = Append(outfile.rows, AsRead(NewRow))
          /\ skipped_rows' = skipped_rows + 1
          /\ updated_rows' = updated_rows]_vars

\* C6: a run that ends in a fatal startup error has not touched the output:
\* the file was not created or truncated, no header and no row was written.
C6_FatalLeavesOutputUntouched ==
    pc = "fatal" => outfile = Untouched

\* C7: the output row differs from the input row in at most the two fields
\* Net Worth Amount and Net Worth Currency; the output columns are the input
\* header, with Net Worth Currency appended only if it was absent; the two
\* fields change only on rows counted as updated, and a row that took the
\* already-priced, no-known-token or a skipped branch is written as read.
C7_Changed ==
    {i \in 1..Len(inRows) :
        i > Len(outfile.rows) \/ outfile.rows[i] # AsRead(inRows[i])}

C7_FrameOfRowValuation ==
    InLoop =>
        /\ outfile.header =
              IF NET_WORTH_CCY_COL \in Range(infile.header.cols)
              THEN infile.header.cols
              ELSE Append(infile.header.cols, NET_WORTH_CCY_COL)
        /\ \A i \in 1..Len(inRows) :
              /\ i <= Len(outfile.rows)
              /\ DOMAIN outfile.rows[i] = Range(outfile.header)
              /\ \A c \in Range(infile.header.cols)
                        \ {NET_WORTH_AMT_COL, NET_WORTH_CCY_COL} :
                    outfile.rows[i][c] = inRows[i][c]
        /\ Cardinality(C7_Changed) <= updated_rows
        /\ (inRows # <<>> /\ branch \notin {"stable", "priced"}) =>
              Len(inRows) \notin C7_Changed

\* the currency column was appended, one row was filled (its two fields
\* changed) and one row was skipped
C7_Witness ==
    /\ pc = "done"
    /\ NET_WORTH_CCY_COL \notin Range(infile.header.cols)
    /\ Len(inRows) = 2 /\ C7_Changed = {1}
    /\ updated_rows = 1 /\ skipped_rows = 1

\* C8: a row with zero net worth, no priced token on either side, a stable
\* asset on the selected side and a non-zero amount gets Net Worth Amount =
\* the amount itself with 8 decimals and Net Worth Currency = "USD;10", and
\* adds one to updated_rows, whatever the date and the price maps are.
C8_Pre(row) ==
    /\ NetIsZero(row)
    /\ ~ToKnown(row) /\ ~FromKnown(row)
    /\ ToStable(row) \/ FromStable(row)
    /\ ~IsZero(safe_float(C3_Expected(row).amt_raw))

C8_StableOneToOne ==
    [][(RowTaken /\ C8_Pre(NewRow)) =>
          LET amt == PyFloat(C3_Expected(NewRow).amt_raw)
          IN  /\ outfile'.rows =
                    Append(outfile.rows,
                           [c \in Range(fieldnames) |->
                               IF c = NET_WORTH_AMT_COL THEN FormatFixed(amt, 8)
                               ELSE IF c = NET_WORTH_CCY_COL THEN <<"USD;10">>
                               ELSE NewRow[c]])
              /\ updated_rows' = updated_rows + 1
              /\ skipped_rows' = skipped_rows]_vars

\* the spec's example: "to" amount 150.25000000 in a stable asset, on a row
\* whose date does not parse
C8_Witness ==
    /\ InLoop /\ inRows # <<>>
    /\ C8_Pre(Last(inRows))
    /\ ~parse_datetime_utc(RowGet(Last(inRows), DATE_COL)).ok
    /\ branch = "stable" /\ updated_rows >= 1
    /\ Last(outfile.rows)[NET_WORTH_AMT_COL] = A_SPEC
    /\ Last(outfile.rows)[NET_WORTH_CCY_COL] = <<"USD;10">>

(***************************************************************************)
(* The price-map loaders, entry by entry, and mag_custom_price.py          *)
(***************************************************************************)
TIME_SUFFIX == <<"1", "2", ":", "0", "0", ":", "0", "0">>

\* the order of Python's str comparison on the characters of a date key
CharOrd(c) == IF IsDigit(c) THEN DigitVal(c) + 1 ELSE 0

RECURSIVE TextLess(_, _)
TextLess(a, b) ==
    IF a = <<>> THEN b # <<>>
    ELSE IF b = <<>> THEN FALSE
    ELSE IF Head(a) = Head(b) THEN TextLess(Tail(a), Tail(b))
    ELSE CharOrd(Head(a)) < CharOrd(Head(b))

\* sorted(a set of date keys)
RECURSIVE SortedKeys(_)
SortedKeys(S) ==
    IF S = {} THEN <<>>
    ELSE LET least == CHOOSE x \in S : \A y \in S \ {x} : TextLess(x, y)
         IN  <<least>> \o SortedKeys(S \ {least})

\* mag_custom_price.py lines 137-146: the line written for date d
RateRow(d, mag_map, xrp_map) ==
    << d \o <<" ">> \o TIME_SUFFIX,
       FormatFixed(FloatMul(mag_map[d], xrp_map[d]), 12) >>

\* the top-level test each loader makes on its document
LoaderAccepts(j, ph, d) ==
    CASE j = "stats" -> d.top = "dict"                 \* data.get
      [] j = "xy" -> d.top \in {"dict", "list"}
      [] j = "mag_xrp_usd" /\ ph = 1 -> d.top = "list"
      [] j = "mag_xrp_usd" /\ ph = 2 -> d.top \in {"dict", "list"}
      [] j = "mag_custom_price" /\ ph = 1 -> d.top = "list"
      [] j = "mag_custom_price" /\ ph = 2 -> d.top = "dict" /\ d.haskey
      [] OTHER -> FALSE

\* the document has a list to iterate (data.get(key, []) is [] otherwise)
HasList(d) == d.top = "list" \/ d.haskey

DocTops ==
    { [top |-> "dict", haskey |-> TRUE], [top |-> "dict", haskey |-> FALSE],
      [top |-> "list", haskey |-> FALSE], [top |-> "other", haskey |-> FALSE] }

OhlcEntry(ts, o, c) ==
    [kind |-> "dict", timestamp |-> ts, open |-> o, close |-> c]

StatsEntrySamples ==
    { StatsPair(JNum(MS_HIT), JNum(P_HALF)),
      StatsPair(JStr(MS_HIT_LATE), JStr(P_THREE)),
      StatsPair(JNum(MS_NEXT), JNum(P_QUARTER)),
      StatsPair(JNum(MS_HIT), JStr(T_BAD)),
      StatsPair(JStr(T_BAD), JNum(P_HALF)),
      StatsPair(JNull, JNum(P_HALF)),
      [kind |-> "short", ts |-> JNum(MS_HIT), price |-> JAbsent] }

XyEntrySamples ==
    { XyEntry(JStr(TS_K1_LATE), JStr(P_THREE_F)),
      XyEntry(JStr(TS_K1_EARLY), JNum(P_QUARTER)),
      XyEntry(JStr(TS_K2), JNum(A_FIVE)),
      XyEntry(JStr(TS_K3), JNum(P_HALF)),
      XyEntry(JStr(TS_K2), JList),
      XyEntry(JNull, JNum(P_HALF)),
      XyEntry(JStr(T_BAD), JNum(P_HALF)),
      XyNotADict }

OhlcEntrySamples ==
    { OhlcEntry(JStr(TS_K1_MS), JNum(P_ONE_HALF), JNum(P_TWO_HALF)),
      OhlcEntry(JStr(TS_K2_MS), JNum(P_THREE), JStr(A_FIVE)),
      OhlcEntry(JStr(TS_K4), JNum(P_HALF), JNum(P_HALF)),
      OhlcEntry(JStr(TS_K1_EARLY), JNum(P_QUARTER), JNum(P_QUARTER)),
      OhlcEntry(JStr(TS_K2_MS), JAbsent, JNum(A_FIVE)),
      OhlcEntry(JStr(T_BAD), JNum(P_THREE), JNum(A_FIVE)),
      [kind |-> "other", timestamp |-> JAbsent, open |-> JAbsent, close |-> JAbsent] }

ChainJob == job \in {"mag_xrp_usd", "mag_custom_price"}

InitPrice ==
    /\ script = "none"
    /\ pc = "idle"
    /\ run = 1
    /\ fs = [f \in {} |-> NoDoc]
    /\ infile = [header |-> HeaderNone, rows |-> <<>>]
    /\ price_maps_by_token = NoMaps
    /\ fieldnames = <<>>
    /\ outfile = Untouched
    /\ inRows = <<>>
    /\ updated_rows = 0
    /\ skipped_rows = 0
    /\ branch = "none"
    /\ job \in {"stats", "xy", "mag_xrp_usd", "mag_custom_price"}
    /\ ld_pc = "open"
    /\ phase = 1
    /\ ld_doc = NoDoc
    /\ ld_price_map = EmptyMap
    /\ seen = <<>>
    /\ mag_xrp_map = EmptyMap
    /\ xrp_usd_map = EmptyMap
    /\ combined = EmptyMap
    /\ common_dates = <<>>
    /\ csv_rows = <<>>

\* json.load and the isinstance tests (or the first attribute access) on the
\* document: lines 102-107, 135-146, 206-212, 237-247 of
\* update_networth_multi.py; 41-47, 90-96 of mag_custom_price.py
LdOpen ==
    /\ ld_pc = "open"
    /\ \E d \in DocTops :
          /\ ld_doc' = d
          /\ ld_pc' = IF LoaderAccepts(job, phase, d) THEN "entries" ELSE "fatal"
    /\ ld_price_map' = EmptyMap
    /\ seen' = <<>>
    /\ UNCHANGED <<job, phase, mag_xrp_map, xrp_usd_map, combined,
                   common_dates, csv_rows>>
    /\ UNCHANGED rowvars

\* one iteration of a loader's loop on entry e
LdStep(r, e) ==
    /\ seen' = Append(seen, e)
    /\ ld_price_map' = r.map
    /\ ld_pc' = IF r.raised THEN "fatal" ELSE "entries"
    /\ UNCHANGED <<job, phase, ld_doc, mag_xrp_map, xrp_usd_map, combined,
                   common_dates, csv_rows>>
    /\ UNCHANGED rowvars

LdStatsEntry ==
    /\ ld_pc = "entries" /\ job = "stats"
    /\ HasList(ld_doc) /\ Len(seen) < MaxEntries
    /\ \E e \in StatsEntrySamples : LdStep(StatsEntryStep(ld_price_map, e), e)

LdXyEntry ==
    /\ ld_pc = "entries" /\ (job = "xy" \/ (ChainJob /\ phase = 2))
    /\ HasList(ld_doc) /\ Len(seen) < MaxEntries
    /\ \E e \in XyEntrySamples : LdStep(XyEntryStep(ld_price_map, e), e)

LdOhlcEntry ==
    /\ ld_pc = "entries" /\ ChainJob /\ phase = 1
    /\ HasList(ld_doc) /\ Len(seen) < MaxEntries
    /\ \E e \in OhlcEntrySamples : LdStep(OhlcEntryStep(ld_price_map, e), e)

\* the list is exhausted: return price_map, or go on to the second document
LdEndOfList ==
    /\ ld_pc = "entries"
    /\ IF ~ChainJob
       THEN /\ ld_pc' = "done"
            /\ UNCHANGED <<phase, mag_xrp_map, xrp_usd_map>>
       ELSE IF phase = 1
       THEN /\ ld_pc' = "open"
            /\ phase' = 2
            /\ mag_xrp_map' = ld_price_map
            /\ UNCHANGED xrp_usd_map
       ELSE /\ ld_pc' = "combine"
            /\ xrp_usd_map' = ld_price_map
            /\ UNCHANGED <<phase, mag_xrp_map>>
    /\ UNCHANGED <<job, ld_doc, ld_price_map, seen, combined, common_dates, csv_rows>>
    /\ UNCHANGED rowvars

\* update_networth_multi.py lines 267-279
LdCombine ==
    /\ ld_pc = "combine" /\ job = "mag_xrp_usd"
    /\ combined' = CombineMaps(mag_xrp_map, xrp_usd_map)
    /\ ld_pc' = "done"
    /\ UNCHANGED <<job, phase, ld_doc, ld_price_map, seen, mag_xrp_map,
                   xrp_usd_map, common_dates, csv_rows>>
    /\ UNCHANGED rowvars

\* mag_custom_price.py lines 128-135: common_dates, the file, its header line
LdWriteHeader ==
    /\ ld_pc = "combine" /\ job = "mag_custom_price"
    /\ common_dates' = SortedKeys(DOMAIN mag_xrp_map \cap DOMAIN xrp_usd_map)
    /\ csv_rows' = << << <<"Date">>, <<"Rate">> >> >>
    /\ ld_pc' = "write"
    /\ UNCHANGED <<job, phase, ld_doc, ld_price_map, seen, mag_xrp_map,
                   xrp_usd_map, combined>>
    /\ UNCHANGED rowvars

\* mag_custom_price.py lines 137-146: one iteration of "for d in common_dates"
LdWriteRate ==
    /\ ld_pc = "write" /\ common_dates # <<>>
    /\ csv_rows' = Append(csv_rows, RateRow(Head(common_dates), mag_xrp_map, xrp_usd_map))
    /\ common_dates' = Tail(common_dates)
    /\ UNCHANGED <<job, ld_pc, phase, ld_doc, ld_price_map, seen, mag_xrp_map,
                   xrp_usd_map, combined>>
    /\ UNCHANGED rowvars

\* mag_custom_price.py line 148
LdWriteDone ==
    /\ ld_pc = "write" /\ common_dates = <<>>
    /\ ld_pc' = "done"
    /\ UNCHANGED <<job, phase, ld_doc, ld_price_map, seen, mag_xrp_map,
                   xrp_usd_map, combined, common_dates, csv_rows>>
    /\ UNCHANGED rowvars

NextPrice ==
    \/ LdOpen
    \/ LdStatsEntry
    \/ LdXyEntry
    \/ LdOhlcEntry
    \/ LdEndOfList
    \/ LdCombine
    \/ LdWriteHeader
    \/ LdWriteRate
    \/ LdWriteDone

SpecPrice == InitPrice /\ [][NextPrice]_vars

(***************************************************************************)
(* Properties of the loaders                                               *)
(***************************************************************************)
\* c is exactly a * b
IsProduct(c, a, b) ==
    /\ c.ok
    /\ c.e <= a.e + b.e
    /\ c.m * Pow10(a.e + b.e - c.e) = a.m * b.m
    /\ c.m # 0 => (c.neg <=> (a.neg # b.neg))

\* C9: the derived MAG/USD map has exactly the dates present in both input
\* maps, each with the value base[date] * quote[date]; mag_custom_price.py
\* writes exactly one line per such date, in date order, holding that
\* product; a date present in only one input appears in neither.
C9_ChainedDerivation ==
    LET common == DOMAIN mag_xrp_map \cap DOMAIN xrp_usd_map
        lines  == SubSeq(csv_rows, 2, Len(csv_rows))
        stamp(d) == d \o <<" ">> \o TIME_SUFFIX
    IN  /\ (job = "mag_xrp_usd" /\ ld_pc = "done") =>
              /\ DOMAIN combined = common
              /\ \A d \in common :
                    IsProduct(combined[d], mag_xrp_map[d], xrp_usd_map[d])
        /\ (job = "mag_custom_price" /\ ld_pc \in {"write", "done"}) =>
              /\ \A i \in 1..Len(lines) :
                    \E d \in common :
                       /\ lines[i][1] = stamp(d)
                       /\ IsProduct(PyFloat(lines[i][2]),
                                    mag_xrp_map[d], xrp_usd_map[d])
              /\ \A i, j \in 1..Len(lines) :
                    i < j => TextLess(lines[i][1], lines[j][1])
              /\ ld_pc = "done" =>
                    \A d \in common : \E i \in 1..Len(lines) : lines[i][1] = stamp(d)

\* the spec's example: base {2024-01-01: 2.0}, quote {2024-01-01: 3.0,
\* 2024-01-02: 5.0} gives {2024-01-01: 6.0}
C9_Witness ==
    /\ job = "mag_xrp_usd" /\ ld_pc = "done"
    /\ DOMAIN mag_xrp_map = {K1}
    /\ mag_xrp_map[K1] = MkFloat(FALSE, 2, 0)
    /\ DOMAIN xrp_usd_map = {K1, K2}
    /\ xrp_usd_map[K1] = MkFloat(FALSE, 3, 0)
    /\ xrp_usd_map[K2] = MkFloat(FALSE, 5, 0)
    /\ DOMAIN combined = {K1}
    /\ combined[K1] = MkFloat(FALSE, 6, 0)

\* what a well-formed entry puts in the map: its date key (ok = FALSE for an
\* entry that is not well formed)
WellFormedDate(e) ==
    IF job = "stats"
    THEN IF /\ e.kind = "pair"
            /\ JIntParts(e.ts).ok
            /\ JFloat(e.price).ok
         THEN UtcDateFromMillis(JIntParts(e.ts).neg, JIntParts(e.ts).digits)
         ELSE DateError
    ELSE IF ChainJob /\ phase = 1
    THEN IF /\ e.kind = "dict"
            /\ ~IsNone(e.timestamp) /\ ~IsNone(e.open) /\ ~IsNone(e.close)
            /\ JFloat(e.open).ok /\ JFloat(e.close).ok
         THEN ParseIsoTimestamp(e.timestamp)
         ELSE DateError
    ELSE IF /\ e.kind = "dict"
            /\ ~IsNone(e.x) /\ ~IsNone(e.y)
            /\ JFloat(e.y).ok
         THEN ParseIsoTimestamp(e.x)
         ELSE DateError

\* C10: on a document whose top-level shape is valid no loader is left by an
\* exception, whatever malformed entries it holds, and the map holds a price
\* for every well-formed entry read.
C10_BadEntryNeverAborts ==
    /\ ld_pc = "fatal" => ~LoaderAccepts(job, phase, ld_doc)
    /\ ld_pc \notin {"open", "fatal"} =>
          \A i \in 1..Len(seen) :
             WellFormedDate(seen[i]).ok =>
                IsoFormat(WellFormedDate(seen[i])) \in DOMAIN ld_price_map

\* the price a well-formed entry stores: float(price), float(y), or the
\* average of open and close
EntryPrice(e) ==
    IF job = "stats" THEN JFloat(e.price)
    ELSE IF ChainJob /\ phase = 1 THEN FloatAvg(JFloat(e.open), JFloat(e.close))
    ELSE JFloat(e.y)

\* the entries read so far that parse, by position
ParsedEntries == {i \in 1..Len(seen) : WellFormedDate(seen[i]).ok}

EntryKey(i) == IsoFormat(WellFormedDate(seen[i]))

\* C11: in every loader the map has exactly one key per distinct calendar
\* date among the entries that parsed (timestamps of one date share the key
\* YYYY-MM-DD), and the value at a key is the price of the last entry of that
\* date in document order: earlier ones are overwritten.
C11_DateTruncationLastWriteWins ==
    ld_pc \notin {"open", "fatal"} =>
       /\ DOMAIN ld_price_map = {EntryKey(i) : i \in ParsedEntries}
       /\ \A i \in ParsedEntries :
             (\A j \in ParsedEntries : j > i => EntryKey(j) # EntryKey(i))
                => ld_price_map[EntryKey(i)] = EntryPrice(seen[i])

\* two entries with different timestamps and different prices on one calendar
\* date have been read; the map holds that date once, with the later price
C11_Witness ==
    /\ ld_pc \notin {"open", "fatal"}
    /\ Len(seen) = 2
    /\ ParsedEntries = {1, 2}
    /\ seen[1] # seen[2]
    /\ EntryKey(1) = EntryKey(2)
    /\ EntryPrice(seen[1]) # EntryPrice(seen[2])
    /\ DOMAIN ld_price_map = {EntryKey(2)}
    /\ ld_price_map[EntryKey(2)] = EntryPrice(seen[2])

====
